---- MODULE Spec2Model ----
(***************************************************************************)
(* Model of rasa_nlu/persistor.py: the backend selector get_persistor and  *)
(* the three persistors (AWSPersistor, GCSPersistor, MongoDBPersistor).    *)
(*                                                                         *)
(* Paths are sequences of path components relative to the process's        *)
(* working directory (<<>> is the working directory itself).  The local    *)
(* filesystem is a function from the paths that exist to their nodes.  An  *)
(* archive is the function from member names to nodes that a gztar file    *)
(* holds.  The remote object stores map existing bucket names to their     *)
(* key -> object maps; the MongoDB collection is the sequence of its       *)
(* documents in natural (insertion) order.                                 *)
(***************************************************************************)
EXTENDS Integers, Sequences, FiniteSets, TLC

VARIABLES fs, s3, gcs, mongo, persistors, last, callers, uploaded

vars == <<fs, s3, gcs, mongo, persistors, last, callers, uploaded>>

(***************************************************************************)
(* Bounds of the model.                                                    *)
(***************************************************************************)
\* most documents the collection is let to grow to
MaxDocs == 2

(***************************************************************************)
(* Filesystem nodes and the os.path functions the code uses.               *)
(***************************************************************************)
NoTar == <<>>
Dir == [kind |-> "dir", data |-> "", tar |-> NoTar]
File(d) == [kind |-> "file", data |-> d, tar |-> NoTar]
TarFile(a) == [kind |-> "file", data |-> "gztar", tar |-> a]

basename(p) == p[Len(p)]
dirname(p) == SubSeq(p, 1, Len(p) - 1)
IsPrefix(r, p) == Len(r) <= Len(p) /\ SubSeq(p, 1, Len(r)) = r
Strip(n, p) == SubSeq(p, n + 1, Len(p))

exists(f, p) == p \in DOMAIN f
isfile(f, p) == p \in DOMAIN f /\ f[p].kind = "file"
\* isdir confused with os.path.exists
isdir_any_kind(f, p) == p \in DOMAIN f
isdir(f, p) == p \in DOMAIN f /\ f[p].kind = "dir"

\* os.makedirs: every missing directory on the way to p, p included
makedirs(f, p) ==
    [q \in {SubSeq(p, 1, i) : i \in 1..Len(p)} \ DOMAIN f |-> Dir] @@ f

\* open(path, 'w' / 'wb') followed by a write of d: creates or truncates
write_file(f, p, d) == (p :> File(d)) @@ f

\* the tree below root, with names relative to root
Tree(f, root) ==
    [r \in {Strip(Len(root), p) : p \in {q \in DOMAIN f : IsPrefix(root, q)}}
        |-> f[root \o r]]

(***************************************************************************)
(* json.load and json.dump on the JSON texts of the model's bundles.  A    *)
(* parsed value is a record; json.dump writes it with the default          *)
(* separators (", " and ": ") and no indentation.                          *)
(***************************************************************************)
JsonV1 == [version |-> 1]
JsonV2 == [version |-> 2]
TextV1 == "{\"version\": 1}"
TextV1Compact == "{\"version\":1}"
TextV2 == "{\"version\": 2}"
TextV2Indented == "{\n    \"version\": 2\n}"
TextInvalid == "{\"version\":"

json_valid(text) == text \in {TextV1, TextV1Compact, TextV2, TextV2Indented}
json_load(text) == IF text \in {TextV1, TextV1Compact} THEN JsonV1 ELSE JsonV2
json_dump(value) == IF value = JsonV1 THEN TextV1 ELSE TextV2

(***************************************************************************)
(* MongoDBPersistor.data_file_names, each name split into its components, *)
(* and os.path.splitext on those names.                                    *)
(***************************************************************************)
data_file_names ==
    << <<"intent_classifier.pkl">>, <<"metadata.json">>,
       <<"entity_synonyms.json">>, <<"training_data.json">>,
       <<"ner", "config.json">>, <<"ner", "model">> >>

file_extension(file_name) ==
    CASE basename(file_name) \in {"metadata.json", "entity_synonyms.json",
                                  "training_data.json", "config.json"} -> ".json"
      [] basename(file_name) = "intent_classifier.pkl" -> ".pkl"
      [] OTHER -> ""

(***************************************************************************)
(* The model bundles on the local disk when the program starts (they are   *)
(* written by the training pipeline, not by this module).                  *)
(***************************************************************************)
BundleA ==
    (<<>> :> Dir) @@ (<<"ner">> :> Dir)
    @@ (<<"intent_classifier.pkl">> :> File("pkl-A"))
    @@ (<<"metadata.json">> :> File(TextV1Compact))
    @@ (<<"entity_synonyms.json">> :> File(TextV1))
    @@ (<<"training_data.json">> :> File(TextV2Indented))
    @@ (<<"ner", "config.json">> :> File(TextV1))
    @@ (<<"ner", "model">> :> File("crf-A"))
    @@ (<<"notes.txt">> :> File("notes"))

BundleB ==
    (<<>> :> Dir) @@ (<<"ner">> :> Dir)
    @@ (<<"intent_classifier.pkl">> :> File("pkl-B"))
    @@ (<<"metadata.json">> :> File(TextV2))
    @@ (<<"entity_synonyms.json">> :> File(TextV2))
    @@ (<<"training_data.json">> :> File(TextV1))
    @@ (<<"ner", "config.json">> :> File(TextV2))
    @@ (<<"ner", "model">> :> File("crf-B"))

Without(bundle, r) == [q \in DOMAIN bundle \ {r} |-> bundle[q]]

Plant(root, bundle) ==
    [p \in {root \o r : r \in DOMAIN bundle} |-> bundle[Strip(Len(root), p)]]

DirA == <<"a", "m1">>
DirB == <<"b", "m1">>
\* a bundle with the i-th manifest file missing, one for every i
PartialDir(i) == <<"partial", <<"no1", "no2", "no3", "no4", "no5", "no6">>[i]>>
PartialDirs == {PartialDir(i) : i \in 1..Len(data_file_names)}
\* a bundle whose metadata.json is not JSON
BadJsonDir == <<"partial", "badjson">>
\* a path that does not exist, and a path that is a file
NoSuchDir == <<"a", "nope">>
FilePath == <<"b", "m1", "metadata.json">>

\* the two complete bundles
Disk ==
    (<<"a">> :> Dir) @@ (<<"b">> :> Dir) @@ Plant(DirA, BundleA) @@ Plant(DirB, BundleB)

\* the complete bundles and the incomplete ones
DiskWithPartial ==
    Disk @@ (<<"partial">> :> Dir)
    @@ Plant(BadJsonDir, (<<"metadata.json">> :> File(TextInvalid)) @@ BundleB)
    @@ [p \in UNION {{PartialDir(i) \o r :
                        r \in DOMAIN BundleB \ {data_file_names[i]}} :
                     i \in 1..Len(data_file_names)}
          |-> BundleB[Strip(2, p)]]

\* the arguments the callers pass
ObjectStoreTargets == {DirA, DirB, NoSuchDir, FilePath}
MongoTargets == ObjectStoreTargets \cup PartialDirs \cup {BadJsonDir}
FetchNames == {"m1.tar.gz"}
FetchDirs == {<<"data", "m1">>, <<"data", "m2">>}

\* a configured path string, as path components
Path(s) == IF s = "" THEN <<>> ELSE <<s>>

(***************************************************************************)
(* The record of the last call: what was called with which arguments, how  *)
(* it ended, the remote calls it made in order, and what it changed.       *)
(***************************************************************************)
NoDoc == [_id |-> 0, model_name |-> "", fields |-> <<>>]
NoPersistor == [type |-> "", data_dir |-> "", bucket_name |-> "", collection_name |-> ""]

NoCall ==
    [op |-> "", type |-> "", target |-> <<>>, filename |-> "", config |-> <<>>,
     self |-> NoPersistor, result |-> "", msg |-> <<>>, calls |-> <<>>,
     returned |-> NoPersistor,
     archive_built |-> FALSE, fs_changed |-> FALSE, remote_changed |-> FALSE,
     after_save |-> <<>>]

EmptyBucket == [k \in {} |-> NoTar]

(***************************************************************************)
(* The configurations get_persistor is called with.                        *)
(***************************************************************************)
ConfigAWS ==
    ("storage" :> "aws") @@ ("path" :> "data") @@ ("aws_region" :> "eu-west-1")
    @@ ("bucket_name" :> "models")
ConfigGCS ==
    ("storage" :> "gcs") @@ ("path" :> "data") @@ ("bucket_name" :> "models")
ConfigMongo ==
    ("storage" :> "mongodb") @@ ("mongodb_uri" :> "mongodb://db/rasa")
    @@ ("collection_name" :> "models")
Drop(config, key) == [k \in DOMAIN config \ {key} |-> config[k]]

Configs ==
    {ConfigAWS, ConfigGCS, ConfigMongo,
     Drop(ConfigAWS, "storage"),
     ("storage" :> "azure") @@ ConfigAWS,
     Drop(ConfigAWS, "aws_region"),
     Drop(ConfigGCS, "bucket_name"), Drop(ConfigMongo, "collection_name")}

(***************************************************************************)
(* get_persistor and the constructors.                                     *)
(***************************************************************************)
\* the list of the docstring, which leaves mongodb out
supported_values_of_docstring == <<"aws", "gcs">>
supported_values == <<"aws", "gcs", "mongodb">>

\* the chain with the gcs branch constructing the AWS class
persistor_class_gcs_as_aws(storage) ==
    CASE storage \in {"aws", "gcs"} -> "AWSPersistor"
      [] storage = "mongodb" -> "MongoDBPersistor"
      [] OTHER -> "None"

\* the class the if/elif chain of get_persistor selects
persistor_class(storage) ==
    CASE storage = "aws" -> "AWSPersistor"
      [] storage = "gcs" -> "GCSPersistor"
      [] storage = "mongodb" -> "MongoDBPersistor"
      [] OTHER -> "None"

\* the configuration keys the selected constructor call reads, in order
constructor_args(class) ==
    CASE class = "AWSPersistor" -> <<"path", "aws_region", "bucket_name">>
      [] class = "GCSPersistor" -> <<"path", "bucket_name">>
      [] class = "MongoDBPersistor" -> <<"mongodb_uri", "collection_name">>
      [] OTHER -> <<>>

\* the bucket-create request of either object store: refused by the service
\* (deny), answered "already exists", or carried out
create_bucket(store, bucket_name, deny) ==
    IF deny THEN [store |-> store, error |-> "Denied"]
    ELSE IF bucket_name \in DOMAIN store
         THEN [store |-> store, error |-> "AlreadyExists"]
         ELSE [store |-> (bucket_name :> EmptyBucket) @@ store, error |-> ""]

\* the ClientErrors of create_bucket that AWSPersistor.__init__ catches
aws_tolerated(error) == error \in {"AlreadyExists", "Denied"}
\* exceptions.Conflict is the one error GCSPersistor.__init__ catches
gcs_tolerated(error) == error = "AlreadyExists"

AWSPersistor_init(data_dir, aws_region, bucket_name, deny) ==
    LET r == create_bucket(s3, bucket_name, deny) IN
    [raised |-> IF r.error = "" \/ aws_tolerated(r.error) THEN "" ELSE r.error,
     store |-> r.store,
     calls |-> <<"create_bucket">>,
     self |-> [type |-> "aws", data_dir |-> data_dir,
               bucket_name |-> bucket_name, collection_name |-> ""]]

GCSPersistor_init(data_dir, bucket_name, deny) ==
    LET r == create_bucket(gcs, bucket_name, deny) IN
    [raised |-> IF r.error = "" \/ gcs_tolerated(r.error) THEN "" ELSE r.error,
     store |-> r.store,
     calls |-> <<"create_bucket">>,
     self |-> [type |-> "gcs", data_dir |-> data_dir,
               bucket_name |-> bucket_name, collection_name |-> ""]]

MongoDBPersistor_init(mongo_uri, collection_name) ==
    [raised |-> "", calls |-> <<>>,
     self |-> [type |-> "mongodb", data_dir |-> "", bucket_name |-> "",
               collection_name |-> collection_name]]

FirstMissing(config, keys) ==
    LET miss == {i \in 1..Len(keys) : keys[i] \notin DOMAIN config} IN
    IF miss = {} THEN "" ELSE keys[CHOOSE i \in miss : \A j \in miss : i <= j]

get_persistor(config, deny) ==
    LET call == [NoCall EXCEPT !.op = "get_persistor", !.config = config] IN
    IF "storage" \notin DOMAIN config
    THEN /\ last' = [call EXCEPT !.result = "KeyError",
                        !.msg = <<"No persistent storage specified. Supported values are">>
                                \o supported_values]
         /\ UNCHANGED <<s3, gcs, persistors>>
    ELSE
    LET class == persistor_class(config["storage"])
        missing == FirstMissing(config, constructor_args(class))
    IN
    IF class = "None"
    THEN /\ last' = [call EXCEPT !.result = "None"]
         /\ UNCHANGED <<s3, gcs, persistors>>
    ELSE IF missing # ""
    THEN /\ last' = [call EXCEPT !.result = "KeyError", !.msg = <<missing>>]
         /\ UNCHANGED <<s3, gcs, persistors>>
    ELSE
    LET made == CASE class = "AWSPersistor" ->
                       AWSPersistor_init(config["path"], config["aws_region"],
                                         config["bucket_name"], deny)
                  [] class = "GCSPersistor" ->
                       GCSPersistor_init(config["path"], config["bucket_name"], deny)
                  [] OTHER ->
                       MongoDBPersistor_init(config["mongodb_uri"],
                                             config["collection_name"])
        s3_new == IF class = "AWSPersistor" THEN made.store ELSE s3
        gcs_new == IF class = "GCSPersistor" THEN made.store ELSE gcs
    IN
    /\ s3' = s3_new
    /\ gcs' = gcs_new
    /\ persistors' = IF made.raised = "" THEN persistors \cup {made.self} ELSE persistors
    /\ last' = [call EXCEPT
                  !.type = made.self.type,
                  !.result = IF made.raised = "" THEN "ok" ELSE made.raised,
                  !.calls = made.calls,
                  !.returned = IF made.raised = "" THEN made.self ELSE NoPersistor,
                  !.remote_changed = (s3_new # s3 \/ gcs_new # gcs)]

\* the service can refuse a bucket-create request only when one is made
Refusals(config) ==
    IF "storage" \in DOMAIN config /\ config["storage"] \in {"aws", "gcs"}
    THEN BOOLEAN ELSE {FALSE}

GetPersistor ==
    \E config \in Configs :
      \E deny \in Refusals(config) :
        /\ get_persistor(config, deny)
        /\ UNCHANGED <<fs, mongo, callers, uploaded>>

(***************************************************************************)
(* shutil.make_archive(base_name, 'gztar', root_dir, base_dir) and         *)
(* TarFile.extractall(path).                                               *)
(***************************************************************************)
\* the members of the archive of root_dir/base_dir, named from base_dir on
make_archive(f, root_dir, base_dir) ==
    LET root == root_dir \o <<base_dir>>
        members == {q \in DOMAIN f : IsPrefix(root, q)}
    IN [r \in {Strip(Len(root_dir), q) : q \in members} |-> f[root_dir \o r]]

\* every member written below path, over whatever is there; nothing removed
extractall(f, tar, path) ==
    [q \in {path \o r : r \in DOMAIN tar} |-> tar[Strip(Len(path), q)]]
    @@ makedirs(f, path)

\* the name make_archive gives the gztar file of base_name
archive_name(base_name) == base_name \o ".tar.gz"

\* the immediately preceding call, if it was a successful save_tar of this
\* backend: its target_dir
AfterSave(type) ==
    IF last.op = "save_tar" /\ last.result = "ok" /\ last.type = type
    THEN last.target ELSE <<>>

(***************************************************************************)
(* AWSPersistor                                                            *)
(***************************************************************************)
AWSPersistor_save_tar(self, target_dir) ==
    LET call == [NoCall EXCEPT !.op = "save_tar", !.type = "aws", !.self = self,
                               !.target = target_dir] IN
    IF ~isdir(fs, target_dir)
    THEN /\ last' = [call EXCEPT !.result = "ValueError"]
         /\ UNCHANGED <<fs, s3, uploaded>>
    ELSE
    LET base_name == basename(target_dir)
        base_dir == dirname(target_dir)
        tarname == <<archive_name(base_name)>>
        built == make_archive(fs, base_dir, base_name)
        fs1 == (tarname :> TarFile(built)) @@ fs
        filekey == basename(tarname)
    IN
    /\ fs' = fs1
    /\ IF self.bucket_name \in DOMAIN s3
       THEN /\ s3' = [s3 EXCEPT ![self.bucket_name] = (filekey :> fs'[tarname].tar) @@ @]
            /\ uploaded' = [uploaded EXCEPT !.aws = target_dir]
            /\ last' = [call EXCEPT !.result = "ok", !.calls = <<"put">>,
                                    !.archive_built = TRUE,
                                    !.fs_changed = (fs' # fs),
                                    !.remote_changed = (s3' # s3)]
       ELSE /\ UNCHANGED <<s3, uploaded>>
            /\ last' = [call EXCEPT !.result = "NoSuchBucket", !.calls = <<"put">>,
                                    !.archive_built = TRUE,
                                    !.fs_changed = (fs' # fs)]

AWSPersistor_fetch_and_extract(self, filename) ==
    LET call == [NoCall EXCEPT !.op = "fetch_and_extract", !.type = "aws",
                               !.self = self,
                               !.filename = filename,
                               !.after_save = AfterSave("aws")]
        \* io.open(filename, 'wb') creates or truncates the local file
        fs1 == write_file(fs, <<filename>>, "")
        found == /\ self.bucket_name \in DOMAIN s3
                 /\ filename \in DOMAIN s3[self.bucket_name]
    IN
    IF ~found
    THEN /\ fs' = fs1
         /\ last' = [call EXCEPT !.result = "NotFound", !.calls = <<"download">>,
                                 !.fs_changed = (fs' # fs)]
    ELSE
    LET tar == s3[self.bucket_name][filename]
        fs2 == (<<filename>> :> TarFile(tar)) @@ fs1
    IN
    /\ fs' = extractall(fs2, tar, Path(self.data_dir))
    /\ last' = [call EXCEPT !.result = "ok", !.calls = <<"download">>,
                            !.fs_changed = (fs' # fs)]

(***************************************************************************)
(* GCSPersistor                                                            *)
(***************************************************************************)
GCSPersistor_save_tar(self, target_dir) ==
    LET call == [NoCall EXCEPT !.op = "save_tar", !.type = "gcs", !.self = self,
                               !.target = target_dir] IN
    IF ~isdir(fs, target_dir)
    THEN /\ last' = [call EXCEPT !.result = "ValueError"]
         /\ UNCHANGED <<fs, gcs, uploaded>>
    ELSE
    LET base_name == basename(target_dir)
        base_dir == dirname(target_dir)
        tarname == <<archive_name(base_name)>>
        built == make_archive(fs, base_dir, base_name)
        fs1 == (tarname :> TarFile(built)) @@ fs
        filekey == basename(tarname)
    IN
    /\ fs' = fs1
    /\ IF self.bucket_name \in DOMAIN gcs
       THEN /\ gcs' = [gcs EXCEPT ![self.bucket_name] = (filekey :> fs'[tarname].tar) @@ @]
            /\ uploaded' = [uploaded EXCEPT !.gcs = target_dir]
            /\ last' = [call EXCEPT !.result = "ok", !.calls = <<"upload">>,
                                    !.archive_built = TRUE,
                                    !.fs_changed = (fs' # fs),
                                    !.remote_changed = (gcs' # gcs)]
       ELSE /\ UNCHANGED <<gcs, uploaded>>
            /\ last' = [call EXCEPT !.result = "NotFound", !.calls = <<"upload">>,
                                    !.archive_built = TRUE,
                                    !.fs_changed = (fs' # fs)]

\* blob.download_to_filename opens the local file for writing before the
\* request; when the blob is missing the client library either leaves the
\* empty file behind or removes it (removes = TRUE), depending on its version
GCSPersistor_fetch_and_extract(self, filename, removes) ==
    LET call == [NoCall EXCEPT !.op = "fetch_and_extract", !.type = "gcs",
                               !.self = self,
                               !.filename = filename,
                               !.after_save = AfterSave("gcs")]
        fs1 == write_file(fs, <<filename>>, "")
        found == /\ self.bucket_name \in DOMAIN gcs
                 /\ filename \in DOMAIN gcs[self.bucket_name]
    IN
    IF ~found
    THEN LET fs2 == IF removes THEN Without(fs1, <<filename>>) ELSE fs1 IN
         /\ fs' = fs2
         /\ last' = [call EXCEPT !.result = "NotFound", !.calls = <<"download">>,
                                 !.fs_changed = (fs' # fs)]
    ELSE
    LET tar == gcs[self.bucket_name][filename]
        fs2 == (<<filename>> :> TarFile(tar)) @@ fs1
    IN
    /\ fs' = extractall(fs2, tar, Path(self.data_dir))
    /\ last' = [call EXCEPT !.result = "ok", !.calls = <<"download">>,
                            !.fs_changed = (fs' # fs)]

(***************************************************************************)
(* MongoDBPersistor                                                        *)
(***************************************************************************)
\* how reading one manifest entry ends: open() fails on a missing file,
\* json.load on a text that is not JSON
entry_error(f, target_dir, file_name) ==
    LET file_loc == target_dir \o file_name IN
    IF ~isfile(f, file_loc) THEN "IOError"
    ELSE IF file_extension(file_name) = ".json" /\ ~json_valid(f[file_loc].data)
         THEN "JSONError"
         ELSE ""

\* the value the loop stores under file_name
entry_value(f, target_dir, file_name) ==
    LET file_loc == target_dir \o file_name IN
    IF file_extension(file_name) = ".json"
    THEN json_load(f[file_loc].data)
    ELSE f[file_loc].data

\* the loop with the entries that cannot be read skipped, not raised
read_entries_skipping(f, target_dir, i, fields) ==
    [error |-> "",
     fields |-> [n \in {data_file_names[k] : k \in
                          {j \in i..Len(data_file_names) :
                             entry_error(f, target_dir, data_file_names[j]) = ""}}
                   |-> entry_value(f, target_dir, n)] @@ fields]

\* the loop over data_file_names: the error of the first entry that fails,
\* else the fields of the document
RECURSIVE read_entries(_, _, _, _)
read_entries(f, target_dir, i, fields) ==
    IF i > Len(data_file_names) THEN [error |-> "", fields |-> fields]
    ELSE LET file_name == data_file_names[i]
             e == entry_error(f, target_dir, file_name)
         IN IF e # "" THEN [error |-> e, fields |-> fields]
            ELSE read_entries(f, target_dir, i + 1,
                     (file_name :> entry_value(f, target_dir, file_name)) @@ fields)

MongoDBPersistor_save_tar(self, target_dir) ==
    LET call == [NoCall EXCEPT !.op = "save_tar", !.type = "mongodb", !.self = self,
                               !.target = target_dir] IN
    IF ~isdir(fs, target_dir)
    THEN /\ last' = [call EXCEPT !.result = "ValueError"]
         /\ UNCHANGED <<mongo, uploaded>>
    ELSE
    LET base_name == basename(target_dir)
        read == read_entries(fs, target_dir, 1, <<>>)
        data_dict == [_id |-> Len(mongo) + 1, model_name |-> base_name,
                      fields |-> read.fields]
    IN
    IF read.error # ""
    THEN /\ last' = [call EXCEPT !.result = read.error]
         /\ UNCHANGED <<mongo, uploaded>>
    ELSE /\ Len(mongo) < MaxDocs
         /\ mongo' = Append(mongo, data_dict)
         /\ uploaded' = [uploaded EXCEPT !.docs = @ + 1]
         /\ last' = [call EXCEPT !.result = "ok", !.calls = <<"insert">>,
                                 !.remote_changed = TRUE]

\* collection.find_one({'model_name': model_name}): the first match in
\* natural order, NoDoc when there is none
find_one(collection, model_name) ==
    LET hits == {i \in 1..Len(collection) : collection[i].model_name = model_name} IN
    IF hits = {} THEN NoDoc
    ELSE collection[CHOOSE i \in hits : \A j \in hits : i <= j]

\* the location without the model's own directory
file_loc_without_model_name(base_dir, model_name, file_name) ==
    base_dir \o file_name

\* "{0}/{1}/{2}".format(base_dir, model_name, file_name)
file_loc_of(base_dir, model_name, file_name) ==
    base_dir \o <<model_name>> \o file_name

\* the loop over data_dict.items(), in the order names lists the keys
RECURSIVE write_entries(_, _, _, _, _)
write_entries(f, fields, base_dir, model_name, names) ==
    IF names = <<>> THEN f
    ELSE LET file_name == Head(names)
             data == fields[file_name]
             file_loc == file_loc_of(base_dir, model_name, file_name)
             model_base_dir == dirname(file_loc)
             f1 == IF ~exists(f, model_base_dir) THEN makedirs(f, model_base_dir) ELSE f
             f2 == IF file_extension(file_name) = ".json"
                   THEN write_file(f1, file_loc, json_dump(data))
                   ELSE write_file(f1, file_loc, data)
         IN write_entries(f2, fields, base_dir, model_name, Tail(names))

\* the keys of a document's fields, in manifest order
FieldNames(fields) ==
    SelectSeq(data_file_names, LAMBDA n : n \in DOMAIN fields)

MongoDBPersistor_fetch_and_extract(self, model_dir) ==
    LET call == [NoCall EXCEPT !.op = "fetch_and_extract", !.type = "mongodb",
                               !.self = self,
                               !.target = model_dir,
                               !.after_save = AfterSave("mongodb")]
        model_name == basename(model_dir)
        base_dir == dirname(model_dir)
        data_dict == find_one(mongo, model_name)
    IN
    IF data_dict = NoDoc
    THEN /\ last' = [call EXCEPT !.result = "ValueError", !.calls = <<"find_one">>]
         /\ UNCHANGED fs
    ELSE
    LET fs1 == write_entries(fs, data_dict.fields, base_dir, model_name,
                             FieldNames(data_dict.fields))
    IN
    /\ fs' = fs1
    /\ last' = [call EXCEPT !.result = "ok", !.calls = <<"find_one">>,
                            !.fs_changed = (fs' # fs)]

(***************************************************************************)
(* One caller at a time: every call runs from start to end.                *)
(***************************************************************************)
\* what the successful saves so far amount to: per object store the
\* target_dir of the save whose upload completed last, and the number of
\* documents inserted
NothingUploaded == [aws |-> <<>>, gcs |-> <<>>, docs |-> 0]

NoCaller == [pc |-> "idle", self |-> NoPersistor, target |-> <<>>]
Callers == {1, 2}

Init ==
    /\ fs = Disk
    /\ s3 = [b \in {} |-> EmptyBucket]
    /\ gcs = [b \in {} |-> EmptyBucket]
    /\ mongo = <<>>
    /\ persistors = {}
    /\ last = NoCall
    /\ callers = [c \in Callers |-> NoCaller]
    /\ uploaded = NothingUploaded

AWSSave ==
    \E self \in persistors, target_dir \in ObjectStoreTargets :
        /\ self.type = "aws"
        /\ AWSPersistor_save_tar(self, target_dir)
        /\ UNCHANGED <<gcs, mongo, persistors, callers>>

AWSFetch ==
    \E self \in persistors, filename \in FetchNames :
        /\ self.type = "aws"
        /\ AWSPersistor_fetch_and_extract(self, filename)
        /\ UNCHANGED <<s3, gcs, mongo, persistors, callers, uploaded>>

GCSSave ==
    \E self \in persistors, target_dir \in ObjectStoreTargets :
        /\ self.type = "gcs"
        /\ GCSPersistor_save_tar(self, target_dir)
        /\ UNCHANGED <<s3, mongo, persistors, callers>>

GCSFetch ==
    \E self \in persistors, filename \in FetchNames, removes \in BOOLEAN :
        /\ self.type = "gcs"
        /\ GCSPersistor_fetch_and_extract(self, filename, removes)
        /\ UNCHANGED <<s3, gcs, mongo, persistors, callers, uploaded>>

MongoSave ==
    \E self \in persistors, target_dir \in ObjectStoreTargets :
        /\ self.type = "mongodb"
        /\ MongoDBPersistor_save_tar(self, target_dir)
        /\ UNCHANGED <<fs, s3, gcs, persistors, callers>>

MongoFetch ==
    \E self \in persistors, model_dir \in FetchDirs :
        /\ self.type = "mongodb"
        /\ MongoDBPersistor_fetch_and_extract(self, model_dir)
        /\ UNCHANGED <<s3, gcs, mongo, persistors, callers, uploaded>>

Next ==
    \/ GetPersistor
    \/ AWSSave
    \/ AWSFetch
    \/ GCSSave
    \/ GCSFetch
    \/ MongoSave
    \/ MongoFetch

Spec == Init /\ [][Next]_vars

(***************************************************************************)
(* The document store alone, saving every kind of bundle directory.        *)
(***************************************************************************)
GetMongoPersistor ==
    \E config \in {ConfigMongo, Drop(ConfigMongo, "collection_name")} :
        /\ get_persistor(config, FALSE)
        /\ UNCHANGED <<fs, mongo, callers, uploaded>>

MongoSaveAny ==
    \E self \in persistors, target_dir \in MongoTargets :
        /\ self.type = "mongodb"
        /\ MongoDBPersistor_save_tar(self, target_dir)
        /\ UNCHANGED <<fs, s3, gcs, persistors, callers>>

NextMongo ==
    \/ GetMongoPersistor
    \/ MongoSaveAny
    \/ MongoFetch

InitMongo ==
    /\ fs = DiskWithPartial
    /\ s3 = [b \in {} |-> EmptyBucket]
    /\ gcs = [b \in {} |-> EmptyBucket]
    /\ mongo = <<>>
    /\ persistors = {}
    /\ last = NoCall
    /\ callers = [c \in Callers |-> NoCaller]
    /\ uploaded = NothingUploaded

SpecMongo == InitMongo /\ [][NextMongo]_vars

(***************************************************************************)
(* Two callers that share the working directory and save at the same       *)
(* time.  An object-store save_tar is two steps, the archive written by    *)
(* make_archive and the upload that opens and reads it; the document       *)
(* store's save_tar makes one remote call, after its local reads.          *)
(***************************************************************************)
ConcurrentTargets == {DirA, DirB, NoSuchDir}

AWSInstance == AWSPersistor_init("data", "eu-west-1", "models", FALSE).self
GCSInstance == GCSPersistor_init("data", "models", FALSE).self
MongoInstance == MongoDBPersistor_init("mongodb://db/rasa", "models").self

\* the three persistors constructed, their buckets created and empty
InitConstructed ==
    /\ fs = Disk
    /\ s3 = ("models" :> EmptyBucket)
    /\ gcs = ("models" :> EmptyBucket)
    /\ mongo = <<>>
    /\ persistors = {AWSInstance, GCSInstance, MongoInstance}
    /\ last = NoCall
    /\ callers = [c \in Callers |-> NoCaller]
    /\ uploaded = NothingUploaded

\* save_tar up to and including make_archive
save_tar_archive(c, self, target_dir) ==
    LET call == [NoCall EXCEPT !.op = "save_tar", !.type = self.type, !.self = self,
                               !.target = target_dir] IN
    /\ callers[c].pc = "idle"
    /\ IF ~isdir(fs, target_dir)
       THEN /\ last' = [call EXCEPT !.result = "ValueError"]
            /\ UNCHANGED <<fs, callers>>
       ELSE LET base_name == basename(target_dir)
                base_dir == dirname(target_dir)
                tarname == <<archive_name(base_name)>>
            IN /\ fs' = (tarname :> TarFile(make_archive(fs, base_dir, base_name))) @@ fs
               /\ callers' = [callers EXCEPT ![c] =
                                 [pc |-> "archived", self |-> self,
                                  target |-> target_dir]]
               /\ UNCHANGED last

\* the rest of save_tar: the upload of what the archive file holds when the
\* upload opens it
save_tar_upload(c) ==
    LET self == callers[c].self
        target_dir == callers[c].target
        tarname == <<archive_name(basename(target_dir))>>
        filekey == basename(tarname)
        store == IF self.type = "aws" THEN s3 ELSE gcs
        call == [NoCall EXCEPT !.op = "save_tar", !.type = self.type, !.self = self,
                               !.target = target_dir, !.archive_built = TRUE,
                               !.calls = IF self.type = "aws" THEN <<"put">>
                                                              ELSE <<"upload">>]
    IN
    /\ callers[c].pc = "archived"
    /\ callers' = [callers EXCEPT ![c] = NoCaller]
    /\ IF self.bucket_name \in DOMAIN store
       THEN LET stored == [store EXCEPT ![self.bucket_name] =
                              (filekey :> fs[tarname].tar) @@ @]
            IN /\ s3' = IF self.type = "aws" THEN stored ELSE s3
               /\ gcs' = IF self.type = "gcs" THEN stored ELSE gcs
               /\ uploaded' = [uploaded EXCEPT ![self.type] = target_dir]
               /\ last' = [call EXCEPT !.result = "ok",
                                       !.remote_changed = (stored # store)]
       ELSE /\ UNCHANGED <<s3, gcs, uploaded>>
            /\ last' = [call EXCEPT !.result = IF self.type = "aws"
                                               THEN "NoSuchBucket" ELSE "NotFound"]

Archive ==
    \E c \in Callers, self \in persistors, target_dir \in ConcurrentTargets :
        /\ self.type \in {"aws", "gcs"}
        /\ save_tar_archive(c, self, target_dir)
        /\ UNCHANGED <<s3, gcs, mongo, persistors, uploaded>>

Upload ==
    \E c \in Callers :
        /\ save_tar_upload(c)
        /\ UNCHANGED <<fs, mongo, persistors>>

MongoSaveConcurrent ==
    \E c \in Callers, self \in persistors, target_dir \in ConcurrentTargets :
        /\ self.type = "mongodb"
        /\ callers[c].pc = "idle"
        /\ MongoDBPersistor_save_tar(self, target_dir)
        /\ UNCHANGED <<fs, s3, gcs, persistors, callers>>

NextConcurrent ==
    \/ Archive
    \/ Upload
    \/ MongoSaveConcurrent

SpecConcurrent == InitConstructed /\ [][NextConcurrent]_vars

(***************************************************************************)
(* Properties                                                              *)
(***************************************************************************)
NotADirectory(p) == p \notin DOMAIN fs \/ fs[p].kind # "dir"

ObjectStores == {"aws", "gcs"}

Store(type) == IF type = "aws" THEN s3 ELSE gcs

\* no remote object (object stores) or document (document store) answers
\* the name the last fetch asked for
RemoteMissing ==
    IF last.type \in ObjectStores
    THEN ~ (/\ last.self.bucket_name \in DOMAIN Store(last.type)
            /\ last.filename \in DOMAIN Store(last.type)[last.self.bucket_name])
    ELSE \A i \in 1..Len(mongo) : mongo[i].model_name # basename(last.target)

\* C1: save_tar on a path that does not exist or is not a directory ends
\* with ValueError on every backend, makes no remote call, builds no
\* archive, and leaves the remote stores and the local disk as they were.
C1_MissingDirectoryRejected ==
    (last.op = "save_tar" /\ NotADirectory(last.target))
    => /\ last.result = "ValueError"
       /\ last.calls = <<>>
       /\ ~last.archive_built
       /\ ~last.remote_changed
       /\ ~last.fs_changed

C1_Witness ==
    /\ last.op = "save_tar"
    /\ last.type = "aws"
    /\ last.target = FilePath
    /\ last.result = "ValueError"
    /\ "models" \in DOMAIN s3
    /\ s3["models"] # EmptyBucket

\* C2: fetch_and_extract of a name with no remote object or document ends
\* with a not-found error and has changed nothing on the local disk.
C2_FetchMissWritesNothing ==
    (last.op = "fetch_and_extract" /\ RemoteMissing)
    => /\ last.result \in {"NotFound", "ValueError"}
       /\ ~last.fs_changed

\* C3: save_tar(D) on an object store puts the archive under the key
\* basename(D) + ".tar.gz", and the fetch_and_extract of that key that
\* follows leaves a tree data_dir/basename(D) identical to the tree of D.
C3_ObjectStoreRoundTrip ==
    /\ (last.op = "save_tar" /\ last.type \in ObjectStores /\ last.result = "ok")
       => /\ archive_name(basename(last.target))
                \in DOMAIN Store(last.type)[last.self.bucket_name]
          /\ Store(last.type)[last.self.bucket_name][archive_name(basename(last.target))]
                = make_archive(fs, dirname(last.target), basename(last.target))
    /\ (/\ last.op = "fetch_and_extract"
        /\ last.type \in ObjectStores
        /\ last.result = "ok"
        /\ last.after_save # <<>>
        /\ last.filename = archive_name(basename(last.after_save)))
       => Tree(fs, Path(last.self.data_dir) \o <<basename(last.after_save)>>)
             = Tree(fs, last.after_save)

\* a document-store fetch that follows the save of a directory of the same
\* base name into a collection that was empty
MongoRoundTrip ==
    /\ last.op = "fetch_and_extract"
    /\ last.type = "mongodb"
    /\ last.result = "ok"
    /\ last.after_save # <<>>
    /\ basename(last.target) = basename(last.after_save)
    /\ Len(mongo) = 1

Fetched(file_name) == dirname(last.target) \o <<basename(last.target)>> \o file_name

\* C4, byte for byte: after the document-store round trip every manifest entry
\* is a file with the bytes of the same entry of D, the JSON entries too.
C4_MongoRoundTripBytes ==
    MongoRoundTrip =>
        \A i \in 1..Len(data_file_names) :
            LET n == data_file_names[i] IN
            /\ Fetched(n) \in DOMAIN fs
            /\ fs[Fetched(n)] = fs[last.after_save \o n]

\* C4, value for value: after the document-store round trip every manifest entry is
\* a file; a binary entry has the bytes of the same entry of D, a JSON entry
\* holds JSON text that parses to the value the entry of D parses to.
C4_MongoRoundTripValues ==
    MongoRoundTrip =>
        \A i \in 1..Len(data_file_names) :
            LET n == data_file_names[i]
                src == fs[last.after_save \o n]
            IN
            /\ Fetched(n) \in DOMAIN fs
            /\ fs[Fetched(n)].kind = "file"
            /\ IF n[Len(n)] \in {"metadata.json", "entity_synonyms.json",
                                 "training_data.json", "config.json"}
               THEN /\ json_valid(fs[Fetched(n)].data)
                    /\ json_load(fs[Fetched(n)].data) = json_load(src.data)
               ELSE fs[Fetched(n)].data = src.data

C4_Witness ==
    /\ MongoRoundTrip
    /\ last.after_save = DirA
    /\ fs[Fetched(<<"metadata.json">>)].data # fs[DirA \o <<"metadata.json">>].data
    /\ fs[Fetched(<<"ner", "model">>)].data = "crf-A"

\* C5: the document-store save_tar of a directory that lacks a manifest
\* file ends with an error, makes no insert and leaves the collection as it
\* was; no document of the collection lacks a manifest entry.
C5_ManifestCompleteness ==
    /\ (/\ last.op = "save_tar"
        /\ last.type = "mongodb"
        /\ ~NotADirectory(last.target)
        /\ \E i \in 1..Len(data_file_names) :
              last.target \o data_file_names[i] \notin DOMAIN fs)
       => /\ last.result \notin {"ok", ""}
          /\ last.calls = <<>>
          /\ ~last.remote_changed
    /\ \A k \in 1..Len(mongo) :
          DOMAIN mongo[k].fields = {data_file_names[i] : i \in 1..Len(data_file_names)}

C5_Witness ==
    /\ last.op = "save_tar"
    /\ last.type = "mongodb"
    /\ last.target = PartialDir(6)
    /\ last.result = "IOError"
    /\ Len(mongo) = 1

\* C6: get_persistor on a configuration without the storage key ends with a
\* KeyError whose message lists aws, gcs and mongodb, and it has made no
\* remote call and constructed no persistor.
C6_MissingStorageKey ==
    (last.op = "get_persistor" /\ "storage" \notin DOMAIN last.config)
    => /\ last.result = "KeyError"
       /\ \A v \in {"aws", "gcs", "mongodb"} :
             \E i \in 1..Len(last.msg) : last.msg[i] = v
       /\ last.calls = <<>>
       /\ last.returned = NoPersistor
       /\ ~last.remote_changed

C6_Witness ==
    /\ last.op = "get_persistor"
    /\ "storage" \notin DOMAIN last.config
    /\ "bucket_name" \in DOMAIN last.config
    /\ last.result = "KeyError"
    /\ persistors # {}

RequiredFields(storage) ==
    CASE storage = "aws" -> {"path", "aws_region", "bucket_name"}
      [] storage = "gcs" -> {"path", "bucket_name"}
      [] storage = "mongodb" -> {"mongodb_uri", "collection_name"}

\* C7: get_persistor with an unrecognized storage value returns None
\* without raising and without a remote call; with a recognized value it
\* raises KeyError when a field of that backend is absent, and otherwise
\* what it returns is a persistor of the matching type (unless the
\* constructor's remote call raised).
C7_Dispatch ==
    (last.op = "get_persistor" /\ "storage" \in DOMAIN last.config)
    => LET storage == last.config["storage"] IN
       IF storage \notin {"aws", "gcs", "mongodb"}
       THEN /\ last.result = "None"
            /\ last.returned = NoPersistor
            /\ last.calls = <<>>
            /\ ~last.remote_changed
       ELSE IF ~(RequiredFields(storage) \subseteq DOMAIN last.config)
       THEN /\ last.result = "KeyError"
            /\ last.returned = NoPersistor
            /\ last.calls = <<>>
       ELSE \/ /\ last.result = "ok"
               /\ last.returned.type = storage
               /\ last.returned \in persistors
            \/ /\ last.result = "Denied"
               /\ last.returned = NoPersistor

C7_Witness ==
    /\ last.op = "get_persistor"
    /\ "storage" \in DOMAIN last.config
    /\ last.config["storage"] = "azure"
    /\ last.result = "None"
    /\ \E p \in persistors : p.type = "gcs"

\* C8: when the constructor of an object-store persistor has returned, the
\* configured bucket exists in the store.
C8_BucketEnsured ==
    (last.op = "get_persistor" /\ last.result = "ok" /\ last.type \in ObjectStores)
    => last.returned.bucket_name \in DOMAIN Store(last.type)

\* C9: after the successful saves so far of the one base name, each object
\* store that was saved to holds exactly one object, under that name's key,
\* equal to the archive of the save whose upload completed last, and the
\* collection holds one document per save of the document store.
C9_LastWriterWins ==
    /\ \A t \in ObjectStores :
          uploaded[t] # <<>>
          => /\ DOMAIN Store(t)["models"] = {"m1.tar.gz"}
             /\ Store(t)["models"]["m1.tar.gz"]
                   = make_archive(fs, dirname(uploaded[t]), basename(uploaded[t]))
    /\ Cardinality({i \in 1..Len(mongo) : mongo[i].model_name = "m1"}) = uploaded.docs

\* the name of the root member of an archive
RootName(tar) == (CHOOSE r \in DOMAIN tar : Len(r) = 1)[1]

\* what the last fetch, a successful one, retrieved
FetchedTar == Store(last.type)[last.self.bucket_name][last.filename]
FetchedDoc == find_one(mongo, basename(last.target))

\* C10: after a successful fetch_and_extract the local bundle directory is
\* equal to the bundle that fetch retrieved: it holds the members of the
\* archive, or the files of the document, and nothing else.
C10_FetchWritesFreshCopy ==
    (last.op = "fetch_and_extract" /\ last.result = "ok")
    => IF last.type \in ObjectStores
       THEN make_archive(fs, Path(last.self.data_dir), RootName(FetchedTar))
               = FetchedTar
       ELSE {p \in DOMAIN fs : IsPrefix(last.target, p) /\ fs[p].kind = "file"}
               = {last.target \o n : n \in DOMAIN FetchedDoc.fields}

====
